---- MODULE Spec2Model ----
(***************************************************************************)
(* Non-transitive dice game: the commit-reveal fair random protocol, the   *)
(* dice selection and the turn sequence, as implemented twice in the       *)
(* repository: src/game.js (asynchronous readline, impl = "js") and        *)
(* src/index.ts (readline-sync, impl = "ts").                               *)
(*                                                                         *)
(* Strings are sequences of one-character strings, so that trim,           *)
(* toUpperCase, split and parseInt are computed as the code computes them. *)
(***************************************************************************)
EXTENDS Integers, Sequences, FiniteSets, TLC

VARIABLES
    impl,         \* which program runs: "js" (game.js) or "ts" (index.ts)
    args,         \* process.argv.slice(2): one string per die
    diceList,     \* Game.diceList / Game.dice: sequence of dice (face sequences)
    pc,           \* position of the game flow
    frg,          \* the current FairRandomGenerator session (NoSession if none)
    userNum,      \* <<y>>: contribution accepted by the current session
    result,       \* <<r>>: combined result of the current session
    log,          \* what the current session has written to the console, in order
    shown,        \* the values the current session has displayed
    first,        \* who selects first: "none", "computer", "user"
    available,    \* the pool (die identities) last offered / left after the first pick
    computerDie,  \* <<id>> of the computer's die, <<>> before selection
    userDie,      \* <<id>> of the user's die
    computerRoll, \* <<value>> of the computer's roll
    userRoll,     \* <<value>> of the user's roll
    outcome,      \* outcomes announced, in order
    table,        \* the probability table most recently printed (<<>> if none)
    exitCode,     \* <<>> while the process runs, <<c>> after process.exit(c)
    lastInput     \* the line most recently read from the user

vars == <<impl, args, diceList, pc, frg, userNum, result, log, shown, first,
          available, computerDie, userDie, computerRoll, userRoll, outcome,
          table, exitCode, lastInput>>

----------------------------------------------------------------------------
(* Bounds *)

\* number of distinct keys crypto.randomBytes(32) is allowed to return
NumKeys == 2
\* number of lines a single session may read before it must get no more
\* help / malformed lines
MaxTries == 2

Keys == 1..NumKeys

\* most faces of a die handed to the probability engine on its own
MaxFaces == 3
\* largest face value of such a die
MaxFaceValue == 2

----------------------------------------------------------------------------
(* Strings *)

DigitChars == <<"0", "1", "2", "3", "4", "5", "6", "7", "8", "9">>

IsDigit(c) == \E i \in 1..10 : DigitChars[i] = c

DigitVal(c) == CHOOSE d \in 0..9 : DigitChars[d + 1] = c

IsSpace(c) == c = " "

RECURSIVE TrimStart(_)
TrimStart(s) ==
    IF s # <<>> /\ IsSpace(Head(s)) THEN TrimStart(Tail(s)) ELSE s

RECURSIVE TrimEnd(_)
TrimEnd(s) ==
    IF s # <<>> /\ IsSpace(s[Len(s)]) THEN TrimEnd(SubSeq(s, 1, Len(s) - 1)) ELSE s

\* String.prototype.trim
trim(s) == TrimEnd(TrimStart(s))

UpperChar(c) == IF c = "x" THEN "X" ELSE IF c = "a" THEN "A" ELSE c

\* String.prototype.toUpperCase
toUpperCase(s) == [i \in 1..Len(s) |-> UpperChar(s[i])]

RECURSIVE DigitPrefixLen(_)
DigitPrefixLen(s) ==
    IF s # <<>> /\ IsDigit(Head(s)) THEN 1 + DigitPrefixLen(Tail(s)) ELSE 0

RECURSIVE DigitsValue(_)
DigitsValue(s) ==
    IF s = <<>> THEN 0
    ELSE 10 * DigitsValue(SubSeq(s, 1, Len(s) - 1)) + DigitVal(s[Len(s)])

\* parseInt(s, 10): leading white space skipped, optional sign, then the
\* longest prefix of decimal digits; NaN when that prefix is empty.
parseInt(s) ==
    LET t      == TrimStart(s)
        signed == t # <<>> /\ Head(t) \in {"-", "+"}
        neg    == t # <<>> /\ Head(t) = "-"
        body   == IF signed THEN Tail(t) ELSE t
        n      == DigitPrefixLen(body)
        v      == DigitsValue(SubSeq(body, 1, n))
    IN  IF n = 0 THEN [nan |-> TRUE, val |-> 0]
        ELSE [nan |-> FALSE, val |-> IF neg THEN 0 - v ELSE v]

isNaN(p) == p.nan

RECURSIVE split(_, _)
\* String.prototype.split(sep) for a one-character separator
split(s, sep) ==
    IF \A i \in 1..Len(s) : s[i] # sep THEN <<s>>
    ELSE LET k == CHOOSE i \in 1..Len(s) :
                      s[i] = sep /\ \A j \in 1..(i - 1) : s[j] # sep
         IN  <<SubSeq(s, 1, k - 1)>> \o split(SubSeq(s, k + 1, Len(s)), sep)

RECURSIVE toString(_)
\* Number.prototype.toString for a non-negative integer
toString(n) ==
    IF n < 10 THEN <<DigitChars[n + 1]>>
    ELSE toString(n \div 10) \o <<DigitChars[(n % 10) + 1]>>

----------------------------------------------------------------------------
(* Program constants *)

\* faces every die must have in game.js
JsNumFaces == 6
\* range of both roll sessions in game.js
JsRollRange == 6
\* range of the first-mover session
FirstMoveRange == 2
\* fewest dice accepted
MinDice == 3

----------------------------------------------------------------------------
(* Dice and their parsing *)

\* the faces of an argument, as both parsers compute them
ParsedFaces(arg, trimmed) ==
    LET parts == split(arg, ",")
    IN  [i \in 1..Len(parts) |->
            parseInt(IF trimmed THEN trim(parts[i]) ELSE parts[i])]

FaceValues(parsed) == [i \in 1..Len(parsed) |-> parsed[i].val]

\* DiceParser.parseDiceConfigs (game.js): an error, or the list of dice
parseDiceConfigs(a) ==
    IF Len(a) < MinDice THEN [ok |-> FALSE, dice |-> <<>>]
    ELSE IF \E d \in 1..Len(a) :
               LET parsed == ParsedFaces(a[d], TRUE)
               IN  \/ \E i \in 1..Len(parsed) : isNaN(parsed[i])
                   \/ Len(parsed) # JsNumFaces
         THEN [ok |-> FALSE, dice |-> <<>>]
         ELSE [ok |-> TRUE,
               dice |-> [d \in 1..Len(a) |-> FaceValues(ParsedFaces(a[d], TRUE))]]

\* DiceParser.parse (index.ts): an error, or the list of dice
parse(a) ==
    IF Len(a) < MinDice THEN [ok |-> FALSE, dice |-> <<>>]
    ELSE IF \E d \in 1..Len(a) :
               LET parsed == ParsedFaces(a[d], FALSE)
               IN  \/ \E i \in 1..Len(parsed) : isNaN(parsed[i])
                   \/ Len(parsed) = 0
                   \/ Len(parsed) # Len(ParsedFaces(a[1], FALSE))
         THEN [ok |-> FALSE, dice |-> <<>>]
         ELSE [ok |-> TRUE,
               dice |-> [d \in 1..Len(a) |-> FaceValues(ParsedFaces(a[d], FALSE))]]

\* getFace reading the face after the one asked for
getFaceShifted(die, index) == die[((index + 1) % Len(die)) + 1]

\* Dice.getFace: index is 0-based
getFace(die, index) == die[index + 1]

\* Dice.numFaces
numFaces(die) == Len(die)

----------------------------------------------------------------------------
(* Probabilities: a value wins / total is kept as the pair of both numbers *)

\* the inner loop: how many faces of facesB the face a beats
RECURSIVE BeatsCount(_, _)
BeatsCount(a, facesB) ==
    IF facesB = <<>> THEN 0
    ELSE (IF a > Head(facesB) THEN 1 ELSE 0) + BeatsCount(a, Tail(facesB))

\* the outer loop: winCount after all faces of facesA
RECURSIVE WinCount(_, _)
WinCount(facesA, facesB) ==
    IF facesA = <<>> THEN 0
    ELSE BeatsCount(Head(facesA), facesB) + WinCount(Tail(facesA), facesB)

\* the divisor of game.js
JsTotal == 36

\* ProbabilityCalculator.calculateWinProbability (game.js)
calculateWinProbability(diceA, diceB) ==
    [num |-> WinCount(diceA, diceB), den |-> JsTotal]

\* ProbabilityCalculator.calculate (index.ts)
calculate(dice1, dice2) ==
    LET wins  == WinCount(dice1, dice2)
        total == numFaces(dice1) * numFaces(dice2)
    IN  IF total > 0 THEN [num |-> wins, den |-> total]
        ELSE [num |-> 0, den |-> 1]

\* toFixed4 cutting the further decimals off instead of rounding
toFixed4Truncated(p) == (10000 * p.num) \div p.den

\* Number.prototype.toFixed(4) of a probability, in units of 0.0001
toFixed4(p) == (2 * 10000 * p.num + p.den) \div (2 * p.den)

\* generateProbabilityTable given the dice still on offer, as if selectDice
\* handed its own argument to the generator
generateProbabilityTableOfPool(dl) ==
    [a \in 1..Len(available) |->
        [b \in 1..Len(available) |->
            LET prob == calculateWinProbability(dl[available[a]], dl[available[b]])
            IN  [dash |-> (a = b), prob |-> <<prob>>, text |-> <<toFixed4(prob)>>]]]

\* TableGenerator.generateProbabilityTable (game.js): one row per die, one
\* cell per opponent; the cell of a die against itself carries a dash
generateProbabilityTable(dl) ==
    [a \in 1..Len(dl) |->
        [b \in 1..Len(dl) |->
            LET prob == calculateWinProbability(dl[a], dl[b])
            IN  [dash |-> (a = b), prob |-> <<prob>>, text |-> <<toFixed4(prob)>>]]]

\* TableRenderer.render (index.ts): the cell of a die against itself is a
\* dash and the engine is not called for it
render(dl) ==
    [d1 \in 1..Len(dl) |->
        [d2 \in 1..Len(dl) |->
            IF d1 = d2 THEN [dash |-> TRUE, prob |-> <<>>, text |-> <<>>]
            ELSE [dash |-> FALSE, prob |-> <<calculate(dl[d1], dl[d2])>>,
                  text |-> <<toFixed4(calculate(dl[d1], dl[d2]))>>]]]

----------------------------------------------------------------------------
(* Commitment *)

\* CryptoHelper.computeHMAC (game.js): the message is hashed as the single
\* byte Buffer.from([message]); the hash is a fixed function of (key, bytes)
computeHMAC(key, message) == <<key, <<message % 256>> >>

\* HMACCalculator.calculateHMAC (index.ts): the message is hashed as its
\* decimal string; the hash is a fixed function of (key, characters)
calculateHMAC(key, number) == <<key, toString(number)>>

keyedHash(im, key, secret) ==
    IF im = "js" THEN computeHMAC(key, secret) ELSE calculateHMAC(key, secret)

NoSession == [range |-> 0, key |-> 0, x |-> 0, hmac |-> <<>>]

\* new FairRandomGenerator(range) in game.js, the first three lines of
\* FairRandomGenerator.generate in index.ts; key and x are the random draws
FairRandomGenerator(im, range, key, x) ==
    [range |-> range, key |-> key, x |-> x, hmac |-> keyedHash(im, key, x)]

getHMAC(g) == g.hmac

\* computeResult multiplying the two numbers instead of adding them
computeResultProduct(g, y) == (g.x * y) % g.range

\* computeResult with the reduction modulo the range left out
computeResultNoMod(g, y) == g.x + y

\* FairRandomGenerator.computeResult; result = (computerNum + userNum) % range
computeResult(g, y) == (g.x + y) % g.range

\* reveal handing out a number other than the committed one
revealShifted(g) == [x |-> (g.x + 1) % g.range, key |-> g.key]

\* FairRandomGenerator.reveal
reveal(g) == [x |-> g.x, key |-> g.key]

NothingShown == [digest |-> <<>>, secret |-> <<>>, key |-> <<>>, result |-> <<>>]

----------------------------------------------------------------------------
(* Reading a number *)

\* one pass of the loop of Game.getUserNumber / Game.selectDice (game.js)
getUserNumber(range, input) ==
    LET trimmed == toUpperCase(trim(input))
        num     == parseInt(trimmed)
    IN  IF trimmed = <<"X">> THEN [kind |-> "exit", num |-> 0]
        ELSE IF trimmed = <<"?">> THEN [kind |-> "help", num |-> 0]
        ELSE IF ~isNaN(num) /\ num.val >= 0 /\ num.val < range
             THEN [kind |-> "num", num |-> num.val]
             ELSE [kind |-> "invalid", num |-> 0]

\* getNumber testing the number for truth, so that 0 counts as no number
getNumberZeroIsNull(range, input) ==
    LET in  == toUpperCase(trim(input))
        num == parseInt(in)
    IN  IF in = <<"X">> THEN [kind |-> "exit", num |-> 0]
        ELSE IF in = <<"?">> THEN [kind |-> "null", num |-> 0]
        ELSE IF ~isNaN(num) /\ num.val > 0 /\ num.val < range
             THEN [kind |-> "num", num |-> num.val]
             ELSE [kind |-> "null", num |-> 0]

\* UserInterface.getNumber (index.ts): null for help and for malformed input
getNumber(range, input) ==
    LET in  == toUpperCase(trim(input))
        num == parseInt(in)
    IN  IF in = <<"X">> THEN [kind |-> "exit", num |-> 0]
        ELSE IF in = <<"?">> THEN [kind |-> "null", num |-> 0]
        ELSE IF ~isNaN(num) /\ num.val >= 0 /\ num.val < range
             THEN [kind |-> "num", num |-> num.val]
             ELSE [kind |-> "null", num |-> 0]

----------------------------------------------------------------------------
(* Command lines and input lines the model draws from *)

ArgA == <<"2", ",", "2", ",", "4", ",", "4", ",", "9", ",", "9">>
ArgB == <<"6", ",", "8", ",", "1", ",", "1", ",", "8", ",", "6">>
ArgC == <<"7", ",", "5", ",", "3", ",", "7", ",", "5", ",", "3">>
Arg12 == <<"1", ",", "2">>
Arg30 == <<"3", ",", "0">>
Arg22 == <<"2", ",", "2">>
Arg1a == <<"1", ",", "a">>
Arg123 == <<"1", ",", "2", ",", "3">>
Arg15 == <<"1", ".", "5", ",", "2">>

ArgLists ==
    { <<ArgA, ArgB, ArgC>>,            \* the example of the README
      <<ArgA, ArgA, ArgB>>,            \* two dice with identical faces
      <<Arg12, Arg12, Arg30>>,         \* two-faced dice
      <<Arg12, Arg12, Arg30, Arg22>>,  \* four dice
      <<ArgA, ArgB>>,                  \* too few dice
      <<Arg12, Arg1a, Arg30>>,         \* a face that is not a number
      <<Arg12, Arg15, Arg30>>,         \* a face that is not an integer
      <<Arg12, Arg123, Arg30>> }       \* differing face counts

Inputs ==
    { <<"0">>, <<"1">>, <<"2">>, <<"3">>, <<"4">>, <<"5">>,
      <<"6">>, <<"-", "1">>, <<"a">>, <<>>, <<" ", "1">>,
      <<"1", "a">>, <<"?">>, <<"X">>, <<"x">> }

----------------------------------------------------------------------------
(* State *)

Parsed(im, a) == IF im = "js" THEN parseDiceConfigs(a) ELSE parse(a)

\* the state once the command line is parsed and the Game is constructed
Init ==
    /\ impl \in {"js", "ts"}
    /\ args \in ArgLists
    /\ diceList = Parsed(impl, args).dice
    /\ pc = IF Parsed(impl, args).ok THEN "commitFirst" ELSE "error"
    /\ frg = NoSession
    /\ userNum = <<>>
    /\ result = <<>>
    /\ log = <<>>
    /\ shown = NothingShown
    /\ first = "none"
    /\ available = <<>>
    /\ computerDie = <<>>
    /\ userDie = <<>>
    /\ computerRoll = <<>>
    /\ userRoll = <<>>
    /\ outcome = <<>>
    /\ table = <<>>
    /\ exitCode = IF Parsed(impl, args).ok THEN <<>> ELSE <<1>>
    /\ lastInput = <<>>

\* the identities of the configured dice: positions in diceList
AllDice == [i \in 1..Len(diceList) |-> i]

Prompts(l) == Cardinality({i \in 1..Len(l) : l[i] = "prompt"})

\* CommitOutput with the question asked before the HMAC line is printed
CommitOutputAsksFirst == <<"prompt", "digest">>

\* what a session prints when it starts: the HMAC line, then the question
CommitOutput == <<"digest", "prompt">>

\* a session is committed, its digest is printed and the first line is asked
\* for: game.js 181-183, 202-204, 213-215; index.ts 60-65 with 105-108
Commit(range, next) ==
    \E key \in Keys, x \in 0..(range - 1) :
        /\ frg' = FairRandomGenerator(impl, range, key, x)
        /\ log' = CommitOutput
        /\ shown' = [NothingShown EXCEPT !.digest = <<getHMAC(frg')>>]
        /\ userNum' = <<>>
        /\ result' = <<>>
        /\ pc' = next
        /\ UNCHANGED <<table, exitCode, impl, args, diceList, first, available, computerDie,
                       userDie, computerRoll, userRoll, outcome, lastInput>>

\* Exit with the escape line read but the process left running
ExitIgnored(input) ==
    /\ lastInput' = input
    /\ UNCHANGED <<table, exitCode, impl, args, diceList, pc, frg, userNum, result, log,
                   shown, first, available, computerDie, userDie, computerRoll,
                   userRoll, outcome>>

\* process.exit(0)
Exit(input) ==
    /\ exitCode' = <<0>>
    /\ lastInput' = input
    /\ UNCHANGED <<table, impl, args, diceList, pc, frg, userNum, result, log, shown,
                   first, available, computerDie, userDie, computerRoll,
                   userRoll, outcome>>

----------------------------------------------------------------------------
(* game.js *)

\* filterOut comparing the faces of the dice instead of their identity
filterOutByValue(dl, pool, chosen) == SelectSeq(pool, LAMBDA d : dl[d] # dl[chosen])

\* this.diceList.filter(d => d !== chosen): removal by identity
filterOut(dl, pool, chosen) == SelectSeq(pool, LAMBDA d : d # chosen)

\* jsOutcome with a tie going to the user
jsOutcomeTieToUser(uRoll, cRoll) ==
    IF uRoll >= cRoll THEN "user"
    ELSE IF cRoll > uRoll THEN "computer"
    ELSE "draw"

\* the comparison that ends Game.start
jsOutcome(uRoll, cRoll) ==
    IF uRoll > cRoll THEN "user"
    ELSE IF cRoll > uRoll THEN "computer"
    ELSE "draw"

\* the loop of getUserNumber goes round: a message, then the question again
JsAskAgain(input, message) ==
    /\ Prompts(log) <= MaxTries
    /\ log' = log \o <<message, "prompt">>
    /\ lastInput' = input
    /\ UNCHANGED <<table, exitCode, impl, args, diceList, pc, frg, userNum, result, shown,
                   first, available, computerDie, userDie, computerRoll,
                   userRoll, outcome>>

\* Game.start up to the first question
JsStart ==
    /\ impl = "js"
    /\ exitCode = <<>>
    /\ pc = "commitFirst"
    /\ Commit(FirstMoveRange, "awaitFirst")

\* a line arrives for the first-mover session; on a valid number Game.start
\* runs on to the die selection question
JsFirstInput(input) ==
    /\ impl = "js"
    /\ exitCode = <<>>
    /\ pc = "awaitFirst"
    /\ LET r == getUserNumber(FirstMoveRange, input)
       IN  \/ r.kind = "exit" /\ Exit(input)
           \/ r.kind = "help" /\ JsAskAgain(input, "help")
           \/ r.kind = "invalid" /\ JsAskAgain(input, "invalid")
           \/ /\ r.kind = "num"
              /\ LET firstMoveResult == computeResult(frg, r.num)
                 IN  /\ userNum' = <<r.num>>
                     /\ result' = <<firstMoveResult>>
                     /\ log' = log \o <<"secret", "key">>
                     /\ shown' = [shown EXCEPT !.secret = <<reveal(frg).x>>,
                                               !.key = <<reveal(frg).key>>]
                     /\ IF firstMoveResult = 0
                        THEN /\ first' = "user"
                             /\ available' = AllDice
                             /\ computerDie' = <<>>
                        ELSE /\ first' = "computer"
                             /\ \E index \in 1..Len(AllDice) :
                                  /\ computerDie' = <<AllDice[index]>>
                                  /\ available' =
                                       filterOut(diceList, AllDice, AllDice[index])
              /\ pc' = "awaitSelect"
              /\ lastInput' = input
              /\ UNCHANGED <<table, exitCode, impl, args, diceList, frg, userDie, computerRoll,
                             userRoll, outcome>>

\* a line arrives for Game.selectDice
JsSelectInput(input) ==
    /\ impl = "js"
    /\ exitCode = <<>>
    /\ pc = "awaitSelect"
    /\ LET r == getUserNumber(Len(available), input)
       IN  \/ r.kind = "exit" /\ Exit(input)
           \/ /\ r.kind = "help"
              /\ table' = generateProbabilityTable(diceList)
              /\ lastInput' = input
              /\ UNCHANGED <<exitCode, impl, args, diceList, pc, frg, userNum,
                             result, log, shown, first, available, computerDie,
                             userDie, computerRoll, userRoll, outcome>>
           \/ /\ r.kind = "invalid"
              /\ lastInput' = input
              /\ UNCHANGED <<table, exitCode, impl, args, diceList, pc, frg,
                             userNum, result, log, shown, first, available,
                             computerDie, userDie, computerRoll, userRoll,
                             outcome>>
           \/ /\ r.kind = "num"
              /\ userDie' = <<available[r.num + 1]>>
              /\ IF first = "user"
                 THEN LET remaining ==
                            filterOut(diceList, AllDice, available[r.num + 1])
                      IN  /\ available' = remaining
                          /\ \E index \in 1..Len(remaining) :
                               computerDie' = <<remaining[index]>>
                 ELSE UNCHANGED <<available, computerDie>>
              /\ pc' = "commitComp"
              /\ lastInput' = input
              /\ UNCHANGED <<table, exitCode, impl, args, diceList, frg, userNum, result, log,
                             shown, first, computerRoll, userRoll, outcome>>

\* JsCompRollCommit going straight on to the question of the user's roll
JsCompRollCommitSkipsRoll ==
    /\ impl = "js"
    /\ exitCode = <<>>
    /\ pc = "commitComp"
    /\ Commit(JsRollRange, "awaitUser")

\* "It's time for my roll."
JsCompRollCommit ==
    /\ impl = "js"
    /\ exitCode = <<>>
    /\ pc = "commitComp"
    /\ Commit(JsRollRange, "awaitComp")

\* the number is revealed with the result of a roll session of game.js
JsResolveRoll(y) ==
    /\ userNum' = <<y>>
    /\ result' = <<computeResult(frg, y)>>
    /\ log' = log \o <<"secret", "key", "result">>
    /\ shown' = [shown EXCEPT !.secret = <<reveal(frg).x>>,
                              !.key = <<reveal(frg).key>>,
                              !.result = <<computeResult(frg, y)>>]

\* a line arrives for the computer's roll session
JsCompRollInput(input) ==
    /\ impl = "js"
    /\ exitCode = <<>>
    /\ pc = "awaitComp"
    /\ LET r == getUserNumber(JsRollRange, input)
       IN  \/ r.kind = "exit" /\ Exit(input)
           \/ r.kind = "help" /\ JsAskAgain(input, "help")
           \/ r.kind = "invalid" /\ JsAskAgain(input, "invalid")
           \/ /\ r.kind = "num"
              /\ JsResolveRoll(r.num)
              /\ computerRoll' =
                   <<getFace(diceList[computerDie[1]], computeResult(frg, r.num))>>
              /\ pc' = "commitUser"
              /\ lastInput' = input
              /\ UNCHANGED <<table, exitCode, impl, args, diceList, frg, first, available,
                             computerDie, userDie, userRoll, outcome>>

\* "It's time for your roll."
JsUserRollCommit ==
    /\ impl = "js"
    /\ exitCode = <<>>
    /\ pc = "commitUser"
    /\ Commit(JsRollRange, "awaitUser")

\* a line arrives for the user's roll session; on a valid number the rolls
\* are compared and Game.start returns
JsUserRollInput(input) ==
    /\ impl = "js"
    /\ exitCode = <<>>
    /\ pc = "awaitUser"
    /\ LET r == getUserNumber(JsRollRange, input)
       IN  \/ r.kind = "exit" /\ Exit(input)
           \/ r.kind = "help" /\ JsAskAgain(input, "help")
           \/ r.kind = "invalid" /\ JsAskAgain(input, "invalid")
           \/ /\ r.kind = "num"
              /\ JsResolveRoll(r.num)
              /\ LET roll == getFace(diceList[userDie[1]], computeResult(frg, r.num))
                 IN  /\ userRoll' = <<roll>>
                     /\ outcome' = outcome \o <<jsOutcome(roll, computerRoll[1])>>
              /\ pc' = "done"
              /\ lastInput' = input
              /\ UNCHANGED <<table, exitCode, impl, args, diceList, frg, first, available,
                             computerDie, userDie, computerRoll>>

----------------------------------------------------------------------------
(* index.ts *)

\* pool after available.splice(idx, 1); idx is 0-based
splice(pool, idx) == SubSeq(pool, 1, idx) \o SubSeq(pool, idx + 2, Len(pool))

\* the comparison that ends Game.play
tsOutcome(uRoll, cRoll) ==
    IF uRoll > cRoll THEN "user"
    ELSE IF uRoll < cRoll THEN "computer"
    ELSE "draw"

\* Game.determineFirst: the mapping of the first-mover result
determineFirst(res) == IF res = 0 THEN "computer" ELSE "user"

\* a step of Game.play returned null: the table is rendered and the loop
\* continues from its top, all locals of the iteration gone
TsContinue(input) ==
    /\ pc' = "commitFirst"
    /\ frg' = NoSession
    /\ userNum' = <<>>
    /\ result' = <<>>
    /\ log' = <<>>
    /\ shown' = NothingShown
    /\ first' = "none"
    /\ available' = <<>>
    /\ computerDie' = <<>>
    /\ userDie' = <<>>
    /\ computerRoll' = <<>>
    /\ userRoll' = <<>>
    /\ lastInput' = input
    /\ table' = render(diceList)
    /\ UNCHANGED <<exitCode, impl, args, diceList, outcome>>

\* the tail of FairRandomGenerator.generate once a number is accepted
TsResolve(y) ==
    /\ userNum' = <<y>>
    /\ result' = <<computeResult(frg, y)>>
    /\ log' = log \o <<"secret", "key", "result">>
    /\ shown' = [shown EXCEPT !.secret = <<frg.x>>,
                              !.key = <<frg.key>>,
                              !.result = <<computeResult(frg, y)>>]

\* Game.play enters Game.determineFirst, up to the first question
TsStart ==
    /\ impl = "ts"
    /\ exitCode = <<>>
    /\ pc = "commitFirst"
    /\ Commit(FirstMoveRange, "awaitFirst")

\* a line arrives for the first-mover session; on a valid number Game.play
\* runs on into Game.selectDice, up to its question
TsFirstInput(input) ==
    /\ impl = "ts"
    /\ exitCode = <<>>
    /\ pc = "awaitFirst"
    /\ LET r == getNumber(frg.range, input)
       IN  \/ r.kind = "exit" /\ Exit(input)
           \/ r.kind = "null" /\ TsContinue(input)
           \/ /\ r.kind = "num"
              /\ TsResolve(r.num)
              /\ first' = determineFirst(computeResult(frg, r.num))
              /\ IF first' = "computer"
                 THEN \E compIdx \in 0..(Len(AllDice) - 1) :
                        /\ computerDie' = <<AllDice[compIdx + 1]>>
                        /\ available' = splice(AllDice, compIdx)
                 ELSE /\ computerDie' = <<>>
                      /\ available' = AllDice
              /\ pc' = "awaitSelect"
              /\ lastInput' = input
              /\ UNCHANGED <<table, exitCode, impl, args, diceList, frg, userDie, computerRoll,
                             userRoll, outcome>>

\* a line arrives for UserInterface.selectDice
TsSelectInput(input) ==
    /\ impl = "ts"
    /\ exitCode = <<>>
    /\ pc = "awaitSelect"
    /\ LET r == getNumber(Len(available), input)
       IN  \/ r.kind = "exit" /\ Exit(input)
           \/ r.kind = "null" /\ TsContinue(input)
           \/ /\ r.kind = "num"
              /\ userDie' = <<available[r.num + 1]>>
              /\ IF first = "computer"
                 THEN UNCHANGED <<available, computerDie>>
                 ELSE /\ available' = splice(available, r.num)
                      /\ \E compIdx \in 0..(Len(available') - 1) :
                           computerDie' = <<available'[compIdx + 1]>>
              /\ pc' = "commitComp"
              /\ lastInput' = input
              /\ UNCHANGED <<table, exitCode, impl, args, diceList, frg, userNum, result, log,
                             shown, first, computerRoll, userRoll, outcome>>

\* Game.roll(computerDie, 'Computer') up to its question
TsCompRollCommit ==
    /\ impl = "ts"
    /\ exitCode = <<>>
    /\ pc = "commitComp"
    /\ Commit(numFaces(diceList[computerDie[1]]), "awaitComp")

\* a line arrives for the computer's roll session
TsCompRollInput(input) ==
    /\ impl = "ts"
    /\ exitCode = <<>>
    /\ pc = "awaitComp"
    /\ LET r == getNumber(frg.range, input)
       IN  \/ r.kind = "exit" /\ Exit(input)
           \/ r.kind = "null" /\ TsContinue(input)
           \/ /\ r.kind = "num"
              /\ TsResolve(r.num)
              /\ computerRoll' =
                   <<getFace(diceList[computerDie[1]], computeResult(frg, r.num))>>
              /\ pc' = "commitUser"
              /\ lastInput' = input
              /\ UNCHANGED <<table, exitCode, impl, args, diceList, frg, first, available,
                             computerDie, userDie, userRoll, outcome>>

\* Game.roll(userDie, 'You') up to its question
TsUserRollCommit ==
    /\ impl = "ts"
    /\ exitCode = <<>>
    /\ pc = "commitUser"
    /\ Commit(numFaces(diceList[userDie[1]]), "awaitUser")

\* a line arrives for the user's roll session; on a valid number the rolls
\* are compared and the loop of Game.play is left
TsUserRollInput(input) ==
    /\ impl = "ts"
    /\ exitCode = <<>>
    /\ pc = "awaitUser"
    /\ LET r == getNumber(frg.range, input)
       IN  \/ r.kind = "exit" /\ Exit(input)
           \/ r.kind = "null" /\ TsContinue(input)
           \/ /\ r.kind = "num"
              /\ TsResolve(r.num)
              /\ LET roll == getFace(diceList[userDie[1]], computeResult(frg, r.num))
                 IN  /\ userRoll' = <<roll>>
                     /\ outcome' = outcome \o <<tsOutcome(roll, computerRoll[1])>>
              /\ pc' = "done"
              /\ lastInput' = input
              /\ UNCHANGED <<table, exitCode, impl, args, diceList, frg, first, available,
                             computerDie, userDie, computerRoll>>

----------------------------------------------------------------------------
(* Specification *)

Next ==
    \/ JsStart
    \/ \E input \in Inputs : JsFirstInput(input)
    \/ \E input \in Inputs : JsSelectInput(input)
    \/ JsCompRollCommit
    \/ \E input \in Inputs : JsCompRollInput(input)
    \/ JsUserRollCommit
    \/ \E input \in Inputs : JsUserRollInput(input)
    \/ TsStart
    \/ \E input \in Inputs : TsFirstInput(input)
    \/ \E input \in Inputs : TsSelectInput(input)
    \/ TsCompRollCommit
    \/ \E input \in Inputs : TsCompRollInput(input)
    \/ TsUserRollCommit
    \/ \E input \in Inputs : TsUserRollInput(input)

Spec == Init /\ [][Next]_vars

----------------------------------------------------------------------------
(* The probability engine on its own: the table of two arbitrary dice *)

\* every die of 1..MaxFaces faces with values in 0..MaxFaceValue
ProbDice ==
    UNION {[1..n -> 0..MaxFaceValue] : n \in 1..MaxFaces}

ProbInit ==
    /\ impl \in {"js", "ts"}
    /\ args = <<>>
    /\ diceList \in {<<A, B>> : A \in ProbDice, B \in ProbDice}
    /\ pc = "table"
    /\ frg = NoSession
    /\ userNum = <<>>
    /\ result = <<>>
    /\ log = <<>>
    /\ shown = NothingShown
    /\ first = "none"
    /\ available = <<>>
    /\ computerDie = <<>>
    /\ userDie = <<>>
    /\ computerRoll = <<>>
    /\ userRoll = <<>>
    /\ outcome = <<>>
    /\ table = <<>>
    /\ exitCode = <<>>
    /\ lastInput = <<>>

\* the table of the dice is built: every cell calls the engine
ProbTable ==
    /\ pc = "table"
    /\ table' = IF impl = "js" THEN generateProbabilityTable(diceList)
                ELSE render(diceList)
    /\ pc' = "tabled"
    /\ UNCHANGED <<impl, args, diceList, frg, userNum, result, log, shown, first,
                   available, computerDie, userDie, computerRoll, userRoll,
                   outcome, exitCode, lastInput>>

ProbNext == ProbTable

ProbSpec == ProbInit /\ [][ProbNext]_vars

----------------------------------------------------------------------------
(* Vocabulary of the properties *)

\* positions at which a session waits for the counterpart's number
SessionAwait == {"awaitFirst", "awaitComp", "awaitUser"}

\* every position at which a line is read
AwaitStates == SessionAwait \cup {"awaitSelect"}

\* positions at which both parties hold a die
AfterSelection == {"commitComp", "awaitComp", "commitUser", "awaitUser", "done"}

IsHelpLine(line) == toUpperCase(trim(line)) = <<"?">>

IsEscapeLine(line) == toUpperCase(trim(line)) = <<"X">>

\* neither help nor escape nor a number of [0, range)
IsMalformedLine(line, range) ==
    /\ ~IsHelpLine(line)
    /\ ~IsEscapeLine(line)
    /\ LET n == parseInt(toUpperCase(trim(line)))
       IN  n.nan \/ n.val < 0 \/ n.val >= range

Emitted(l) == {l[i] : i \in 1..Len(l)}

Members(pool) == {pool[i] : i \in 1..Len(pool)}

Occurrences(pool, d) == Cardinality({i \in 1..Len(pool) : pool[i] = d})

----------------------------------------------------------------------------
(* Properties *)

\* C1: a help line '?' read at any prompt leaves the game at the same prompt
\* of the same session: digest, secret, key, first-mover decision, selected
\* dice, rolls and contribution are unchanged; only the display changes.
C1_HelpKeepsState ==
    [][(exitCode = <<>> /\ pc \in AwaitStates /\ IsHelpLine(lastInput'))
         => UNCHANGED <<pc, frg, shown, userNum, result, first, available,
                        computerDie, userDie, computerRoll, userRoll, outcome,
                        exitCode>>]_vars

\* C2: an out-of-range or non-numeric line read by a session that awaits the
\* counterpart leaves the session awaiting with the same range, secret, key
\* and digest; the round goes on and no other session is committed.
C2_MalformedReprompts ==
    [][(exitCode = <<>> /\ pc \in SessionAwait
          /\ IsMalformedLine(lastInput', frg.range))
         => (pc' = pc /\ frg' = frg /\ shown'.digest = shown.digest
               /\ userNum' = <<>> /\ exitCode' = <<>>)]_vars

\* C3: once the first-mover session has resolved, result 0 lets the computer
\* select first and result 1 the user; secret 0 with contribution 1 lets the
\* user select first.
C3_FirstMoverMapping ==
    pc = "awaitSelect" =>
        /\ result = <<0>> => first = "computer"
        /\ result = <<1>> => first = "user"
        /\ (frg.x = 0 /\ userNum = <<1>>) => first = "user"

\* C4 as stated: after an escape entered while a session awaits the
\* counterpart, the play-through holds no roll result and no outcome.
C4_EscapeLeavesNoRoll ==
    (exitCode = <<0>> /\ pc \in SessionAwait) =>
        (computerRoll = <<>> /\ userRoll = <<>> /\ outcome = <<>>)

\* C4 as amended: an escape line read by a session that awaits the
\* counterpart terminates the process; the user's roll and the outcome are
\* not recorded, a computer roll is on record only when the escape is read by
\* the user's roll session, and after the escape nothing changes any more.
C4_EscapeTerminates ==
    [][/\ (exitCode = <<>> /\ pc \in SessionAwait /\ IsEscapeLine(lastInput'))
          => /\ exitCode' = <<0>>
             /\ UNCHANGED <<pc, frg, userNum, result, first, available,
                            computerDie, userDie, computerRoll, userRoll,
                            outcome>>
             /\ userRoll = <<>>
             /\ outcome = <<>>
             /\ computerRoll # <<>> => pc = "awaitUser"
       /\ exitCode # <<>> => UNCHANGED vars]_vars

\* C4 witness: the escape was read by the user's roll session, after the
\* computer's roll was recorded
C4_Witness ==
    exitCode = <<0>> /\ pc = "awaitUser" /\ computerRoll # <<>>

\* C5: in every session the digest is printed before the first question, and
\* secret and key are printed only after a valid number was accepted, after
\* every question of the session; while a session awaits the counterpart
\* neither its secret nor its key has been shown.
C5_DigestFirstRevealLast ==
    /\ \A i \in 1..Len(log) :
         log[i] = "prompt" => \E j \in 1..(i - 1) : log[j] = "digest"
    /\ \A i \in 1..Len(log) :
         log[i] \in {"secret", "key"} =>
            /\ userNum # <<>>
            /\ \A j \in 1..Len(log) : log[j] \in {"prompt", "digest"} => j < i
    /\ (pc \in SessionAwait) =>
         /\ shown.digest = <<getHMAC(frg)>>
         /\ "digest" \in Emitted(log)
         /\ shown.secret = <<>>
         /\ shown.key = <<>>
         /\ Emitted(log) \cap {"secret", "key"} = {}

\* C5 witness: a roll session of game.js has revealed after several questions
C5_Witness ==
    /\ impl = "js"
    /\ pc = "commitUser"
    /\ Prompts(log) > 1
    /\ shown.secret # <<>>
    /\ shown.key # <<>>

\* C6: the secret and key a session reveals are the pair its published
\* digest was computed from: the keyed hash of the revealed pair equals the
\* digest, and no line read while the session awaits alters the committed
\* pair (the session keeps it, or is discarded without a reveal).
C6_RevealMatchesDigest ==
    /\ []((shown.secret # <<>> \/ shown.key # <<>>) =>
            /\ shown.secret # <<>> /\ shown.key # <<>> /\ shown.digest # <<>>
            /\ keyedHash(impl, shown.key[1], shown.secret[1]) = shown.digest[1])
    /\ [][(pc \in SessionAwait) =>
            ((frg' = frg /\ shown'.digest = shown.digest) \/ frg' = NoSession)]_vars

\* C6 witness: a reveal after a help line and a malformed line
C6_Witness ==
    /\ shown.secret # <<>>
    /\ shown.key # <<>>
    /\ {"help", "invalid"} \subseteq Emitted(log)

\* C7: every session that has accepted a number has printed its secret, its
\* key and its combined result.
C7_ResolvedEmitsAll ==
    userNum # <<>> =>
        /\ {"secret", "key", "result"} \subseteq Emitted(log)
        /\ shown.secret = <<frg.x>>
        /\ shown.key = <<frg.key>>
        /\ shown.result = result

\* C8: the secret of a session lies in [0, R); the number it accepts lies in
\* [0, R); its result is (secret + number) mod R and lies in [0, R).
C8_ResultInRange ==
    /\ frg # NoSession => frg.x \in 0..(frg.range - 1)
    /\ userNum # <<>> =>
         /\ userNum[1] \in 0..(frg.range - 1)
         /\ result = <<(frg.x + userNum[1]) % frg.range>>
         /\ result[1] \in 0..(frg.range - 1)

\* C8 witness: a resolved session whose sum wrapped around the range
C8_Witness ==
    /\ userNum # <<>>
    /\ frg.x + userNum[1] >= frg.range
    /\ frg.range > 2

\* C9: after the first mover picked from the N dice, the pool of the second
\* mover has N-1 dice, lacks the picked die, holds every other die once, and
\* the two parties end up with distinct dice.
C9_PoolReduction ==
    LET N == Len(diceList)
        PoolWithout(d) ==
            /\ Len(available) = N - 1
            /\ d \notin Members(available)
            /\ \A e \in (1..N) \ {d} : Occurrences(available, e) = 1
    IN  /\ (pc = "awaitSelect" /\ first = "computer") => PoolWithout(computerDie[1])
        /\ (pc = "awaitSelect" /\ first = "user") => available = AllDice
        /\ (pc \in AfterSelection) =>
             /\ PoolWithout(IF first = "computer" THEN computerDie[1] ELSE userDie[1])
             /\ (IF first = "computer" THEN userDie[1] ELSE computerDie[1])
                  \in Members(available)
             /\ computerDie # userDie

\* C9 witness: the two parties hold two distinct dice with identical faces
C9_Witness ==
    /\ pc \in AfterSelection
    /\ computerDie # userDie
    /\ diceList[computerDie[1]] = diceList[userDie[1]]

\* C10: exactly one outcome is announced, when the game is done: the user
\* wins iff userRoll > computerRoll, the computer iff computerRoll > userRoll,
\* a draw iff the rolls are equal; after it nothing changes any more.
C10_OneOutcome ==
    /\ [](/\ Len(outcome) <= 1
          /\ (pc = "done") <=> (Len(outcome) = 1)
          /\ (pc = "done") =>
               /\ userRoll # <<>> /\ computerRoll # <<>>
               /\ (outcome[1] = "user") <=> (userRoll[1] > computerRoll[1])
               /\ (outcome[1] = "computer") <=> (computerRoll[1] > userRoll[1])
               /\ (outcome[1] = "draw") <=> (userRoll[1] = computerRoll[1]))
    /\ [][(pc = "done") => UNCHANGED vars]_vars

\* C10 witness: a game that ended in a draw
C10_Witness ==
    pc = "done" /\ outcome = <<"draw">> /\ userRoll = computerRoll

\* the faces of a die, as a set
Faces(die) == {die[i] : i \in 1..Len(die)}

\* C11: each roll session has the number of faces of the rolling party's die
\* as its range, its result is an index of that die, and the recorded roll is
\* the face of that die at the result.
C11_RollIsFaceOfOwnDie ==
    /\ (pc \in {"awaitComp", "commitUser"}) =>
         frg.range = numFaces(diceList[computerDie[1]])
    /\ (pc = "commitUser") =>
         /\ result[1] \in 0..(numFaces(diceList[computerDie[1]]) - 1)
         /\ computerRoll = <<diceList[computerDie[1]][result[1] + 1]>>
    /\ (pc \in {"awaitUser", "done"}) =>
         frg.range = numFaces(diceList[userDie[1]])
    /\ (pc = "done") =>
         /\ result[1] \in 0..(numFaces(diceList[userDie[1]]) - 1)
         /\ userRoll = <<diceList[userDie[1]][result[1] + 1]>>
    /\ computerRoll # <<>> => computerRoll[1] \in Faces(diceList[computerDie[1]])
    /\ userRoll # <<>> => userRoll[1] \in Faces(diceList[userDie[1]])

\* C11 witness: both rolls are recorded, the user's from the last face of a
\* die that differs from the computer's
C11_Witness ==
    /\ pc = "done"
    /\ result[1] = numFaces(diceList[userDie[1]]) - 1
    /\ diceList[userDie[1]] # diceList[computerDie[1]]
    /\ computerRoll # <<>>

\* the ordered face pairs (by position) in which A shows more than B
WinPairs(A, B) ==
    Cardinality({ij \in (1..Len(A)) \X (1..Len(B)) : A[ij[1]] > B[ij[2]]})

\* C12: for dice A and B of any face counts, every probability the engine
\* puts into a table is WinPairs(A, B) / (|A| x |B|), lies in [0, 1], and
\* building the table leaves the dice as they were.
C12_WinProbability ==
    /\ [](\A a \in 1..Len(table) : \A b \in 1..Len(table[a]) :
            table[a][b].prob # <<>> =>
                LET p == table[a][b].prob[1]
                    A == diceList[a]
                    B == diceList[b]
                IN  /\ p.den > 0
                    /\ p.num * (Len(A) * Len(B)) = WinPairs(A, B) * p.den
                    /\ 0 <= p.num /\ p.num <= p.den)
    /\ [][diceList' = diceList]_vars

\* the face pairs (by position) in which A and B show the same value
TiePairs(A, B) ==
    Cardinality({ij \in (1..Len(A)) \X (1..Len(B)) : A[ij[1]] = B[ij[2]]})

\* the orders in which n faces can be written
FaceOrders(n) ==
    {f \in [1..n -> 1..n] : \A i, j \in 1..n : f[i] = f[j] => i = j}

Permuted(die, f) == [i \in 1..Len(die) |-> die[f[i]]]

\* the engine of the running program
Engine(im, A, B) ==
    IF im = "js" THEN calculateWinProbability(A, B) ELSE calculate(A, B)

\* C13: for two dice A, B of the same face count n in a table,
\* P(A,B) + P(B,A) + TiePairs(A,B) / n^2 = 1, and the engine returns the same
\* value for every reordering of the faces of A and of B.
C13_ComplementLaw ==
    (Len(table) = 2 /\ Len(diceList[1]) = Len(diceList[2])) =>
        LET A  == diceList[1]
            B  == diceList[2]
            n  == Len(A)
            ab == table[1][2].prob[1]
            ba == table[2][1].prob[1]
        IN  /\ ab.num * ba.den * n * n + ba.num * ab.den * n * n
                  + TiePairs(A, B) * ab.den * ba.den
               = ab.den * ba.den * n * n
            /\ \A f \in FaceOrders(n), g \in FaceOrders(n) :
                 Engine(impl, Permuted(A, f), Permuted(B, g)) = ab

IsIntegerText(t) ==
    LET body == IF t # <<>> /\ Head(t) \in {"-", "+"} THEN Tail(t) ELSE t
    IN  body # <<>> /\ \A i \in 1..Len(body) : IsDigit(body[i])

\* a command line with at least three dice, integer faces only, and as many
\* faces in every die as in the first
WellFormedArgs(a) ==
    /\ Len(a) >= MinDice
    /\ \A d \in 1..Len(a) :
         LET parts == split(a[d], ",")
         IN  /\ \A i \in 1..Len(parts) : IsIntegerText(parts[i])
             /\ Len(parts) = Len(split(a[1], ","))

\* C15: a command line with fewer than three dice, a non-integer face or a
\* die whose face count differs from the first die's is rejected: the process
\* has exited with an error, no session was committed, no digest printed and
\* no line read.
C15_MalformedRejected ==
    ~WellFormedArgs(args) =>
        /\ pc = "error"
        /\ exitCode = <<1>>
        /\ frg = NoSession
        /\ log = <<>>
        /\ shown = NothingShown
        /\ lastInput = <<>>

\* the steps of one play-through, in order
PhaseEdges ==
    { <<"commitFirst", "awaitFirst">>, <<"awaitFirst", "awaitSelect">>,
      <<"awaitSelect", "commitComp">>, <<"commitComp", "awaitComp">>,
      <<"awaitComp", "commitUser">>, <<"commitUser", "awaitUser">>,
      <<"awaitUser", "done">> }

\* a play-through is given up and the next one starts
RestartEdges == {<<p, "commitFirst">> : p \in AwaitStates}

\* C16: the phases of a play-through come in the order DetermineFirstMover,
\* SelectDice, RollComputer, RollUser, ResolveOutcome: a die is held only
\* once the first mover is decided, a roll session exists only once both
\* parties hold a die, the user's roll follows the computer's, and an outcome
\* is announced only with both rolls recorded.
C16_PhaseOrder ==
    /\ [](/\ (pc \in {"commitFirst", "awaitFirst"}) =>
               /\ first = "none"
               /\ computerDie = <<>> /\ userDie = <<>>
               /\ computerRoll = <<>> /\ userRoll = <<>>
          /\ (computerDie # <<>> \/ userDie # <<>>) => first # "none"
          /\ (pc = "awaitSelect") =>
               /\ first # "none"
               /\ userDie = <<>>
               /\ computerRoll = <<>> /\ userRoll = <<>>
          /\ (pc \in AfterSelection) =>
               /\ first # "none"
               /\ computerDie # <<>> /\ userDie # <<>>
          /\ (pc \in {"commitComp", "awaitComp"}) =>
               computerRoll = <<>> /\ userRoll = <<>>
          /\ (pc \in {"commitUser", "awaitUser"}) =>
               computerRoll # <<>> /\ userRoll = <<>>
          /\ (pc = "done") => computerRoll # <<>> /\ userRoll # <<>>
          /\ outcome # <<>> => computerRoll # <<>> /\ userRoll # <<>>)
    /\ [][pc' # pc => <<pc, pc'>> \in PhaseEdges \cup RestartEdges]_vars

\* C16 witness: a play-through in which the user selected first has reached
\* its outcome
C16_Witness ==
    pc = "done" /\ first = "user" /\ outcome # <<>>

\* positions at which a session is about to be committed
CommitStates == {"commitFirst", "commitComp", "commitUser"}

\* C17: sessions run one after the other and each serves one decision: a
\* session stops awaiting the counterpart only by resolving (or the process
\* ends), a session is committed only when there is none or the previous one
\* has resolved, and the first mover, the computer's roll and the user's roll
\* are each decided in a step that resolves a session.
C17_SessionsSequential ==
    [][/\ (exitCode' = <<>> /\ pc \in SessionAwait /\ pc' # pc)
            => (userNum = <<>> /\ userNum' # <<>> /\ frg' = frg)
       /\ (pc \in CommitStates /\ pc' \in SessionAwait)
            => ((frg = NoSession \/ userNum # <<>>) /\ userNum' = <<>>)
       /\ (first' # first /\ first' # "none")
            => (pc = "awaitFirst" /\ userNum = <<>> /\ userNum' # <<>>)
       /\ (computerRoll' # computerRoll /\ computerRoll' # <<>>)
            => (pc = "awaitComp" /\ userNum = <<>> /\ userNum' # <<>>)
       /\ (userRoll' # userRoll /\ userRoll' # <<>>)
            => (pc = "awaitUser" /\ userNum = <<>> /\ userNum' # <<>>)]_vars

\* the range of the session about to be committed
NextRange ==
    IF pc = "commitFirst" THEN FirstMoveRange
    ELSE IF pc = "commitComp" THEN numFaces(diceList[computerDie[1]])
    ELSE numFaces(diceList[userDie[1]])

\* f maps the set S one-to-one onto itself
IsBijection(f, S) ==
    /\ \A a \in S : f[a] \in S
    /\ \A a, b \in S : f[a] = f[b] => a = b
    /\ \A c \in S : \E a \in S : f[a] = c

\* C18: for the range R of every session, the result as a function of the
\* counterpart's number is a bijection on [0, R) for the session's secret,
\* and the result as a function of the secret is a bijection on [0, R) for
\* every number; a commit draws the secret with no line read and can draw
\* every secret of the range, and the secret is shown only once the
\* counterpart's number is in.
C18_NotSteerable ==
    /\ [](frg # NoSession =>
            LET R == 0..(frg.range - 1)
            IN  /\ IsBijection([y \in R |-> computeResult(frg, y)], R)
                /\ \A y \in R :
                     IsBijection([s \in R |-> computeResult([frg EXCEPT !.x = s], y)], R))
    /\ []((pc \in CommitStates /\ exitCode = <<>>) =>
            \A x \in 0..(NextRange - 1) :
                ENABLED (Next /\ frg'.x = x /\ frg'.range = NextRange))
    /\ []((pc \in SessionAwait) => (userNum = <<>> /\ shown.secret = <<>>))
    /\ [](shown.secret # <<>> => userNum # <<>>)
    /\ [][(pc \in CommitStates) => (lastInput' = lastInput /\ userNum' = <<>>)]_vars

\* C18 witness: a session of range 6 resolved with a result that neither the
\* secret nor the number alone gives
C18_Witness ==
    /\ frg.range = 6
    /\ userNum # <<>>
    /\ result[1] # frg.x
    /\ result[1] # userNum[1]

\* C19: within a run every decision is made once: when the first mover is
\* decided no first-mover session is committed again, and the first mover,
\* the dice of both parties and the recorded rolls stay what they are under
\* every line the user enters; the outcome compares the rolls on record.
C19_DecisionsFinal ==
    /\ [][/\ first # "none" => (first' = first /\ pc' # "commitFirst")
          /\ computerDie # <<>> => computerDie' = computerDie
          /\ userDie # <<>> => userDie' = userDie
          /\ computerRoll # <<>> => computerRoll' = computerRoll
          /\ userRoll # <<>> => userRoll' = userRoll]_vars
    /\ []((pc = "done") =>
            /\ (outcome = <<"user">>) <=> (userRoll[1] > computerRoll[1])
            /\ (outcome = <<"computer">>) <=> (computerRoll[1] > userRoll[1]))

\* the questions a play-through still has to ask, the current one included
PromptsLeft(p) ==
    CASE p \in {"commitFirst", "awaitFirst"} -> 4
      [] p = "awaitSelect" -> 3
      [] p \in {"commitComp", "awaitComp"} -> 2
      [] p \in {"commitUser", "awaitUser"} -> 1
      [] OTHER -> 0

\* the range of the numbers the current question accepts
RangeAsked == IF pc = "awaitSelect" THEN Len(available) ELSE frg.range

\* a number of [0, range): neither help nor escape nor malformed
IsValidLine(line, range) ==
    ~IsHelpLine(line) /\ ~IsEscapeLine(line) /\ ~IsMalformedLine(line, range)

\* the steps that read no line
CommitStep ==
    \/ JsStart \/ JsCompRollCommit \/ JsUserRollCommit
    \/ TsStart \/ TsCompRollCommit \/ TsUserRollCommit

\* C20: every valid line answers one of the at most four questions left
\* (first mover, die, computer's roll, user's roll) and brings the game one
\* question nearer to its outcome; between two questions the game goes on
\* without input; at every question some line is valid; with no
\* question left the outcome is announced; and at a question nothing happens
\* unless a line is read.
C20_ValidInputsTerminate ==
    /\ [][(exitCode = <<>> /\ pc \in AwaitStates
             /\ IsValidLine(lastInput', RangeAsked))
            => (PromptsLeft(pc') = PromptsLeft(pc) - 1 /\ exitCode' = <<>>)]_vars
    /\ [][(pc \in CommitStates)
            => (pc' \in SessionAwait /\ PromptsLeft(pc') = PromptsLeft(pc))]_vars
    /\ []((exitCode = <<>> /\ pc \in CommitStates) => ENABLED CommitStep)
    /\ []((exitCode = <<>> /\ pc \in AwaitStates) =>
            /\ ~ENABLED CommitStep
            /\ IsValidLine(<<"0">>, RangeAsked))
    /\ [](PromptsLeft(pc) <= 4)
    /\ []((exitCode = <<>> /\ pc # "error" /\ PromptsLeft(pc) = 0)
            => (pc = "done" /\ Len(outcome) = 1))

\* C20 witness: a game of index.ts that reached its outcome with valid lines
\* only
C20_Witness ==
    /\ impl = "ts"
    /\ pc = "done"
    /\ table = <<>>
    /\ outcome # <<>>

\* the pool keeps the dice in the order of the command line
InOriginalOrder(pool) ==
    \A i, j \in 1..Len(pool) : i < j => pool[i] < pool[j]

\* the dice already taken out of the pool
Picked(cDie, uDie) == Members(cDie) \cup Members(uDie)

\* one row and one cell per configured die, a dash where a die meets itself
CoversAllDice(t) ==
    /\ Len(t) = Len(diceList)
    /\ \A a \in 1..Len(t) :
         /\ Len(t[a]) = Len(diceList)
         /\ \A b \in 1..Len(t[a]) : t[a][b].dash = (a = b)

\* C21: no operation changes the configured dice or their faces: the list is
\* what the command line was parsed to, at every moment; pool reduction works
\* on a collection of its own, which holds dice of the list in their original
\* order; whenever a selection step starts, also after a restart, the pool
\* and the computer's pick together are the full list, and with the user
\* first the pool is the full list itself; every table displayed has a row
\* and a column for every configured die, also while the pool is reduced.
C21_DiceListUntouched ==
    /\ [][diceList' = diceList /\ args' = args]_vars
    /\ [](diceList = Parsed(impl, args).dice)
    /\ [](/\ Members(available) \subseteq Members(AllDice)
          /\ InOriginalOrder(available))
    /\ [][(pc # "awaitSelect" /\ pc' = "awaitSelect") =>
            /\ userDie' = <<>>
            /\ Members(available') =
                 Members(AllDice) \ Picked(computerDie', userDie')
            /\ InOriginalOrder(available')
            /\ first' = "user" => available' = AllDice
            /\ first' = "computer" => Len(computerDie') = 1]_vars
    /\ [](table # <<>> => CoversAllDice(table))
    /\ [][(pc \in AwaitStates /\ exitCode = <<>> /\ table' # table)
            => CoversAllDice(table')]_vars

\* C21 witness: game.js shows the help table while the computer's die is out
\* of the pool
C21_Witness ==
    /\ impl = "js"
    /\ pc = "awaitSelect"
    /\ first = "computer"
    /\ Len(available) < Len(diceList)
    /\ table # <<>>
    /\ IsHelpLine(lastInput)

====
